---------------------------- MODULE Spec2Model ----------------------------
(***************************************************************************)
(* A model of the "usa" Jira shortcut tool: usa.py (the full script) and   *)
(* the usa package (usa/cli.py, usa/shortcuts.py).                         *)
(*                                                                         *)
(* Python values are modelled as follows.  A str is a sequence of          *)
(* one-character strings, a list is a sequence, None is the value None     *)
(* below (a sequence no str of the model equals), a dict is a function.    *)
(***************************************************************************)
EXTENDS Integers, Sequences, FiniteSets, TLC

VARIABLES
    pc,         \* the position of the running program or function
    args,       \* argparse's namespace (usa.py: args)
    config,     \* the loaded ~/.config/usa.toml, a dict
    cwd,        \* os.getcwd(), a sequence of path components
    branch,     \* what `git branch --show-current` answers (or GitFailure)
    issue_id,   \* main's / open_current_issue's issue_id
    issues,     \* main's `issues`: the parsed search result
    parents,    \* main's `parent_issues`
    ret,        \* the return value of the function under study
    calls,      \* the tracker API requests sent so far, in order
    opened,     \* the issue ids handed to the web browser, in order
    stdout,     \* what was written to standard output, in order
    exit_code,  \* the process's exit status (Running until it ends)
    traceback,  \* the uncaught exception that ended the process, if any
    events      \* starts and finishes of main's flag actions, in order

vars == <<pc, args, config, cwd, branch, issue_id, issues, parents, ret,
          calls, opened, stdout, exit_code, traceback, events>>

None == <<"None">>
\* The exit status: Running until the process ends, then Exit(n).
Running == <<"running">>
Exit(n) == <<"exit", n>>
GitFailure == <<"CalledProcessError">>

(***************************************************************************)
(* Bounds of the model.                                                    *)
(***************************************************************************)
MaxBranchLen == 5
MaxSearchLen == 3
MaxTextLen == 2
MaxIssues == 2

(***************************************************************************)
(* Characters.  \d is a decimal digit, \D anything else; \w is a letter,   *)
(* a digit or "_", \W anything else.                                       *)
(***************************************************************************)
Digits == {"0", "1", "2", "3", "4", "5", "6", "7", "8", "9"}
Lower == {"a", "b", "c", "d", "e", "f", "g", "h", "i", "j", "k", "l", "m",
          "n", "o", "p", "q", "r", "s", "t", "u", "v", "w", "x", "y", "z"}
Upper == {"A", "B", "C", "D", "E", "F", "G", "H", "I", "J", "K", "L", "M",
          "N", "O", "P", "Q", "R", "S", "T", "U", "V", "W", "X", "Y", "Z"}
IsDigit(c) == c \in Digits
IsWord(c) == c \in Digits \cup Lower \cup Upper \cup {"_"}

\* All sequences over S of length at most n.
StrOver(S, n) == UNION {[1..k -> S] : k \in 0..n}

(***************************************************************************)
(* re.search(r"^(\D+-\d+)", branch), as the backtracking matcher runs it.  *)
(***************************************************************************)
RECURSIVE DigitRun(_, _)
\* \d+ from position i, greedy: how many digits it takes.
DigitRun(s, i) ==
    IF i <= Len(s) /\ IsDigit(s[i]) THEN 1 + DigitRun(s, i + 1) ELSE 0

\* A bug: a lazy \d+? takes a single digit.
DigitRunLazy(s, i) ==
    IF i <= Len(s) /\ IsDigit(s[i]) THEN 1 ELSE 0

\* The digit run as the pattern's \d+ takes it.
DigitsTaken(s, i) == DigitRun(s, i)

RECURSIVE NonDigitRun(_, _)
\* \D+ from position i, greedy: how many non-digits it takes at most.
NonDigitRun(s, i) ==
    IF i <= Len(s) /\ ~IsDigit(s[i]) THEN 1 + NonDigitRun(s, i + 1) ELSE 0

RECURSIVE Backtrack(_, _, _)
\* \D+ holding k characters from `start`; then "-", then \d+.  On failure
\* \D+ gives one character back, down to one character.  The result is the
\* position of the match's last character, or 0 for no match.
Backtrack(s, start, k) ==
    IF k < 1 THEN 0
    ELSE IF /\ start + k <= Len(s)
            /\ s[start + k] = "-"
            /\ DigitsTaken(s, start + k + 1) >= 1
         THEN start + k + DigitsTaken(s, start + k + 1)
         ELSE Backtrack(s, start, k - 1)

\* The pattern tried at position `start`.
MatchAt(s, start) == Backtrack(s, start, NonDigitRun(s, start))

\* A bug: the pattern without its "^", tried at every position in turn.
SearchUnanchored(s) ==
    LET hits == {i \in 1..Len(s) : MatchAt(s, i) > 0}
    IN  IF hits = {} THEN None
        ELSE LET i == CHOOSE h \in hits : \A g \in hits : h <= g
             IN  SubSeq(s, i, MatchAt(s, i))

\* re.search with the "^" anchor (no MULTILINE): only position 1 can match.
\* The value is group(1), or None for no match.
SearchAnchored(s) ==
    IF MatchAt(s, 1) > 0 THEN SubSeq(s, 1, MatchAt(s, 1)) ELSE None

\* usa.py: extract_issue_id
extract_issue_id(b) == SearchAnchored(b)

\* usa/shortcuts.py: extract_issue_id (the same text as usa.py's)
shortcuts_extract_issue_id(b) == SearchAnchored(b)

(***************************************************************************)
(* Python exceptions.  A call's outcome is a record: exc is None and value *)
(* the result, or exc names the exception raised and value is its          *)
(* argument.                                                               *)
(***************************************************************************)
Ok(v) == [exc |-> None, value |-> v]
Raise(e, v) == [exc |-> <<e>>, value |-> v]
Raised(r) == r.exc # None

\* The classes an `except C` clause catches an exception of each class by:
\* the class itself and its bases (KeyError and IndexError are siblings
\* under LookupError).
Bases(e) ==
    CASE e = <<"KeyError">> -> {<<"KeyError">>, <<"LookupError">>, <<"Exception">>}
      [] e = <<"IndexError">> -> {<<"IndexError">>, <<"LookupError">>, <<"Exception">>}
      [] OTHER -> {e, <<"Exception">>}

Catches(handler, r) == Raised(r) /\ <<handler>> \in Bases(r.exc)

\* d[k] on a dict.
DictItem(d, k) ==
    IF k \in DOMAIN d THEN Ok(d[k]) ELSE Raise("KeyError", k)

\* JSON as json.loads gives it: an object is a dict, null is None.
JNull == [t |-> "null"]
JObj(m) == [t |-> "dict", m |-> m]
JStr(s) == [t |-> "str", s |-> s]

\* v[k] on a value out of json.loads: None is not subscriptable.
Subscript(v, k) ==
    IF v.t = "dict" THEN DictItem(v.m, k)
    ELSE Raise("TypeError", "object is not subscriptable")

(***************************************************************************)
(* usa.py: JiraAPIClient                                                   *)
(***************************************************************************)
\* JiraAPIClient.__init__: the outcome is the client or the exception.
JiraAPIClient(cfg) ==
    LET url == DictItem(cfg, "jira_url")
        email == DictItem(cfg, "email")
        token == DictItem(cfg, "api_token")
    IN  IF Raised(url)
        THEN IF Catches("IndexError", url)
             THEN Raise("JiraClientError", "jira_url missing from config.")
             ELSE url
        ELSE IF Raised(email) \/ Raised(token)
        THEN LET first == IF Raised(email) THEN email ELSE token
             IN  IF Catches("IndexError", first)
                 THEN Raise("JiraClientError",
                            "email and/or api_token missing from config.")
                 ELSE first
        ELSE Ok([base_url |-> url.value, username |-> email.value,
                 token |-> token.value])

\* An HTTP response of the tracker: a status and a body.
ErrorBody == "errorMessages"
HttpError == [status |-> 400, body |-> ErrorBody]
Http200(json) == [status |-> 200, body |-> json]
Is2xx(resp) == resp.status >= 200 /\ resp.status < 300

\* The record of one request in `calls`.
Request(method, kind, id, data, resp) ==
    [method |-> method, endpoint |-> kind, id |-> id, data |-> data,
     status |-> resp.status, body |-> resp.body]

\* JiraAPIClient.get_json on the response the tracker gives.
get_json(resp) ==
    IF Is2xx(resp) THEN Ok(resp.body) ELSE Raise("JiraClientError", resp.body)

\* JiraAPIClient.post_json on the response the tracker gives.
post_json(resp) ==
    IF Is2xx(resp) THEN Ok(resp.body) ELSE Raise("JiraClientError", resp.body)

(***************************************************************************)
(* usa.py: parent issue resolution                                         *)
(***************************************************************************)
\* Path(d) in Path(cwd).parents: d is a proper prefix of cwd.
IsParentDir(d, dir) ==
    Len(d) < Len(dir) /\ SubSeq(dir, 1, Len(d)) = d

RECURSIVE CollectIssues(_, _, _)
\* The loop of issues_for_directory over the entries from the n-th on.
CollectIssues(projects, dir, n) ==
    IF n > Len(projects) THEN <<>>
    ELSE (IF IsParentDir(projects[n].key, dir)
          THEN projects[n].value ELSE <<>>)
         \o CollectIssues(projects, dir, n + 1)

RECURSIVE FirstIssues(_, _, _)
\* A bug: stop at the first entry that matches.
FirstIssues(projects, dir, n) ==
    IF n > Len(projects) THEN <<>>
    ELSE IF IsParentDir(projects[n].key, dir) THEN projects[n].value
    ELSE FirstIssues(projects, dir, n + 1)

issues_for_directory_first(cfg, dir) ==
    IF "projects" \notin DOMAIN cfg \/ cfg["projects"] = <<>>
    THEN <<>>
    ELSE FirstIssues(cfg["projects"], dir, 1)

\* issues_for_directory: config.get("projects") is a sequence of
\* [key, value] entries in the file's order (None when the key is missing).
issues_for_directory(cfg, dir) ==
    IF "projects" \notin DOMAIN cfg \/ cfg["projects"] = <<>>
    THEN <<>>
    ELSE CollectIssues(cfg["projects"], dir, 1)

\* The try block of get_parent_issue_id on the decoded response:
\* result["fields"]["parent"]["key"], None on KeyError.
ParentKey(result) ==
    LET f == Subscript(result, "fields")
        p == IF Raised(f) THEN f ELSE Subscript(f.value, "parent")
        k == IF Raised(p) THEN p ELSE Subscript(p.value, "key")
    IN  IF Catches("KeyError", k) THEN Ok(None)
        ELSE IF Raised(k) THEN k
        ELSE Ok(k.value.s)

\* get_parent_issue_id: the outcome, and the requests it sent, given the
\* response the tracker gives to a request.
get_parent_issue_id(cfg, id, resp) ==
    LET client == JiraAPIClient(cfg)
        result == get_json(resp)
    IN  IF Raised(client) THEN [out |-> client, sent |-> <<>>]
        ELSE [out |-> (IF Raised(result) THEN result ELSE ParentKey(result.value)),
              sent |-> <<Request("GET", "issue", id, None, resp)>>]

NoParentMessage == [text |-> "Could not determine any parent issues.", arg |-> None]

\* determine_parent_issues: what it returns or raises (out), the requests it
\* sent, what it wrote, and the status it exited with (Running: it did not).
determine_parent_issues(cfg, dir, id, resp) ==
    LET parent_issues == issues_for_directory(cfg, dir)
        looked == get_parent_issue_id(cfg, id, resp)
    IN  IF Len(parent_issues) < 1
        THEN IF Raised(looked.out)
             THEN [out |-> looked.out, sent |-> looked.sent, wrote |-> <<>>,
                   exit |-> Running]
             ELSE IF looked.out.value = None
             THEN [out |-> Ok(None), sent |-> looked.sent,
                   wrote |-> <<NoParentMessage>>, exit |-> Exit(1)]
             ELSE [out |-> Ok(<<looked.out.value>>), sent |-> looked.sent,
                   wrote |-> <<>>, exit |-> Running]
        ELSE [out |-> Ok(parent_issues), sent |-> <<>>, wrote |-> <<>>,
              exit |-> Running]

(***************************************************************************)
(* usa.py: matching search results against the search term                 *)
(***************************************************************************)
\* Words that are removed from search matching (usa.py: STOP_WORDS).
STOP_WORDS == {
    <<"a", "l", "l">>, <<"j", "u", "s", "t">>, <<"b", "e", "i", "n", "g">>,
    <<"o", "v", "e", "r">>, <<"b", "o", "t", "h">>,
    <<"t", "h", "r", "o", "u", "g", "h">>,
    <<"y", "o", "u", "r", "s", "e", "l", "v", "e", "s">>, <<"i", "t", "s">>,
    <<"b", "e", "f", "o", "r", "e">>, <<"h", "e", "r", "s", "e", "l", "f">>,
    <<"h", "a", "d">>, <<"s", "h", "o", "u", "l", "d">>, <<"t", "o">>,
    <<"o", "n", "l", "y">>, <<"u", "n", "d", "e", "r">>,
    <<"o", "u", "r", "s">>, <<"h", "a", "s">>, <<"d", "o">>,
    <<"t", "h", "e", "m">>, <<"h", "i", "s">>, <<"v", "e", "r", "y">>,
    <<"t", "h", "e", "y">>, <<"n", "o", "t">>,
    <<"d", "u", "r", "i", "n", "g">>, <<"n", "o", "w">>, <<"h", "i", "m">>,
    <<"n", "o", "r">>, <<"d", "i", "d">>, <<"t", "h", "i", "s">>,
    <<"s", "h", "e">>, <<"e", "a", "c", "h">>,
    <<"f", "u", "r", "t", "h", "e", "r">>, <<"w", "h", "e", "r", "e">>,
    <<"f", "e", "w">>, <<"b", "e", "c", "a", "u", "s", "e">>,
    <<"d", "o", "i", "n", "g">>, <<"s", "o", "m", "e">>, <<"a", "r", "e">>,
    <<"o", "u", "r">>, <<"o", "u", "r", "s", "e", "l", "v", "e", "s">>,
    <<"o", "u", "t">>, <<"w", "h", "a", "t">>, <<"f", "o", "r">>,
    <<"w", "h", "i", "l", "e">>, <<"d", "o", "e", "s">>,
    <<"a", "b", "o", "v", "e">>, <<"b", "e", "t", "w", "e", "e", "n">>,
    <<"t">>, <<"b", "e">>, <<"w", "e">>, <<"w", "h", "o">>,
    <<"w", "e", "r", "e">>, <<"h", "e", "r", "e">>, <<"h", "e", "r", "s">>,
    <<"b", "y">>, <<"o", "n">>, <<"a", "b", "o", "u", "t">>, <<"o", "f">>,
    <<"a", "g", "a", "i", "n", "s", "t">>, <<"s">>, <<"o", "r">>,
    <<"o", "w", "n">>, <<"i", "n", "t", "o">>,
    <<"y", "o", "u", "r", "s", "e", "l", "f">>, <<"d", "o", "w", "n">>,
    <<"y", "o", "u", "r">>, <<"f", "r", "o", "m">>, <<"h", "e", "r">>,
    <<"t", "h", "e", "i", "r">>, <<"t", "h", "e", "r", "e">>,
    <<"b", "e", "e", "n">>, <<"w", "h", "o", "m">>, <<"t", "o", "o">>,
    <<"t", "h", "e", "m", "s", "e", "l", "v", "e", "s">>, <<"w", "a", "s">>,
    <<"u", "n", "t", "i", "l">>, <<"m", "o", "r", "e">>,
    <<"h", "i", "m", "s", "e", "l", "f">>, <<"t", "h", "a", "t">>,
    <<"b", "u", "t">>, <<"d", "o", "n">>, <<"w", "i", "t", "h">>,
    <<"t", "h", "a", "n">>, <<"t", "h", "o", "s", "e">>, <<"h", "e">>,
    <<"m", "e">>, <<"m", "y", "s", "e", "l", "f">>,
    <<"t", "h", "e", "s", "e">>, <<"u", "p">>, <<"w", "i", "l", "l">>,
    <<"b", "e", "l", "o", "w">>, <<"c", "a", "n">>,
    <<"t", "h", "e", "i", "r", "s">>, <<"m", "y">>, <<"a", "n", "d">>,
    <<"t", "h", "e", "n">>, <<"i", "s">>, <<"a", "m">>, <<"i", "t">>,
    <<"a", "n">>, <<"a", "s">>, <<"i", "t", "s", "e", "l", "f">>,
    <<"a", "t">>, <<"h", "a", "v", "e">>, <<"i", "n">>, <<"a", "n", "y">>,
    <<"i", "f">>, <<"a", "g", "a", "i", "n">>, <<"n", "o">>,
    <<"w", "h", "e", "n">>, <<"s", "a", "m", "e">>, <<"h", "o", "w">>,
    <<"o", "t", "h", "e", "r">>, <<"w", "h", "i", "c", "h">>,
    <<"y", "o", "u">>, <<"a", "f", "t", "e", "r">>, <<"m", "o", "s", "t">>,
    <<"s", "u", "c", "h">>, <<"w", "h", "y">>, <<"a">>, <<"o", "f", "f">>,
    <<"i">>, <<"y", "o", "u", "r", "s">>, <<"s", "o">>, <<"t", "h", "e">>,
    <<"h", "a", "v", "i", "n", "g">>, <<"o", "n", "c", "e">> }

\* str.lower() on one character.
LowerOf ==
    ("A" :> "a") @@ ("B" :> "b") @@ ("C" :> "c") @@ ("D" :> "d") @@ ("E"
    :> "e") @@ ("F" :> "f") @@ ("G" :> "g") @@ ("H" :> "h") @@ ("I" :>
    "i") @@ ("J" :> "j") @@ ("K" :> "k") @@ ("L" :> "l") @@ ("M" :> "m")
    @@ ("N" :> "n") @@ ("O" :> "o") @@ ("P" :> "p") @@ ("Q" :> "q") @@
    ("R" :> "r") @@ ("S" :> "s") @@ ("T" :> "t") @@ ("U" :> "u") @@ ("V"
    :> "v") @@ ("W" :> "w") @@ ("X" :> "x") @@ ("Y" :> "y") @@ ("Z" :>
    "z")

ToLower(c) == IF c \in Upper THEN LowerOf[c] ELSE c

RECURSIVE SubRuns(_, _)
\* re.sub(r"\W+", " ", s) from position i on: every run of non-word
\* characters becomes one space.
SubRuns(s, i) ==
    IF i > Len(s) THEN <<>>
    ELSE IF IsWord(s[i]) THEN <<s[i]>> \o SubRuns(s, i + 1)
    ELSE IF i > 1 /\ ~IsWord(s[i - 1]) THEN SubRuns(s, i + 1)
    ELSE <<" ">> \o SubRuns(s, i + 1)

RECURSIVE Strip(_)
\* str.strip(): leading and trailing spaces removed.
Strip(s) ==
    IF s = <<>> THEN s
    ELSE IF Head(s) = " " THEN Strip(Tail(s))
    ELSE IF s[Len(s)] = " " THEN Strip(SubSeq(s, 1, Len(s) - 1))
    ELSE s

\* clean_string
clean_string(s) == [i \in 1..Len(Strip(SubRuns(s, 1))) |-> ToLower(Strip(SubRuns(s, 1))[i])]

RECURSIVE Split(_, _)
\* str.split(" "): the pieces between single spaces, as a sequence; the
\* empty string gives one empty piece.  `piece` is the piece being read.
Split(s, piece) ==
    IF s = <<>> THEN <<piece>>
    ELSE IF Head(s) = " " THEN <<piece>> \o Split(Tail(s), <<>>)
    ELSE Split(Tail(s), Append(piece, Head(s)))

Range(f) == {f[i] : i \in DOMAIN f}

\* `t in text` on two strs: t occurs in text as a substring.
InStr(t, text) ==
    \E i \in 1..(Len(text) + 1) :
        i + Len(t) - 1 <= Len(text) /\ SubSeq(text, i, i + Len(t) - 1) = t

\* Python's truth value of a str or None.
Truthy(v) == v # None /\ v # <<>>

\* display_matched_sections, line 331: the terms searched for.
SearchTerms(search) == Range(Split(clean_string(search), <<>>)) \ STOP_WORDS

\* any([t in clean_string(text) for t in terms if text])
AnyTermIn(terms, text) ==
    Truthy(text) /\ \E t \in terms : InStr(t, clean_string(text))

RECURSIVE DisplayComments(_, _, _)
DisplayComments(comments, terms, n) ==
    IF n > Len(comments) THEN <<>>
    ELSE (IF AnyTermIn(terms, comments[n].body)
          THEN <<[text |-> "Comment by", arg |-> comments[n].body]>>
          ELSE <<>>)
         \o DisplayComments(comments, terms, n + 1)

RECURSIVE DisplayIssues(_, _, _)
DisplayIssues(found, terms, n) ==
    IF n > Len(found) THEN <<>>
    ELSE <<[text |-> "--issue--", arg |-> found[n].id]>>
         \o (IF AnyTermIn(terms, found[n].description)
             THEN <<[text |-> "Description:", arg |-> found[n].description]>>
             ELSE <<>>)
         \o DisplayComments(found[n].comments, terms, 1)
         \o DisplayIssues(found, terms, n + 1)

\* display_matched_sections: what it writes to standard output.
display_matched_sections(found, search) ==
    DisplayIssues(found, SearchTerms(search), 1)

(***************************************************************************)
(* SpecParent: determine_parent_issues and JiraAPIClient() over small      *)
(* configurations, working directories and tracker responses.              *)
(***************************************************************************)
MaxProjects == 2

ProjectDirs == {<<>>, <<"a">>, <<"c">>}
WorkDirs == {<<>>, <<"a">>, <<"a", "b">>}
ParentE1 == <<"E", "-", "1">>
ParentE2 == <<"E", "-", "2">>
IssueLists == {<<>>, <<ParentE1>>, <<ParentE2>>, <<ParentE1, ParentE2>>}
IssueP1 == <<"P", "-", "1">>

\* A [projects] table: entries with distinct keys, in the file's order.
ProjectTables ==
    {t \in StrOver([key : ProjectDirs, value : IssueLists], MaxProjects) :
        \A i \in 1..Len(t) : \A j \in 1..Len(t) :
            i # j => t[i].key # t[j].key}

Credentials ==
    [jira_url |-> "https://jira", email |-> "me@x", api_token |-> "tok"]

Restrict(f, S) == [k \in S |-> f[k]]

\* The settings without [projects]: complete, or with one key missing.
SettingsSets ==
    {DOMAIN Credentials} \cup {DOMAIN Credentials \ {k} : k \in DOMAIN Credentials}

WithProjects(c, t) ==
    [k \in DOMAIN c \cup {"projects"} |-> IF k = "projects" THEN t ELSE c[k]]

Configs ==
    {Restrict(Credentials, S) : S \in SettingsSets}
    \cup {WithProjects(Restrict(Credentials, S), t) :
            S \in SettingsSets, t \in ProjectTables}

\* What the tracker may answer to GET /rest/api/latest/issue/<id>.
DetailResponses ==
    { HttpError,
      Http200(JObj([fields |-> JObj([parent |-> JObj([key |-> JStr(ParentE1)])])])),
      Http200(JObj([fields |-> JObj([parent |-> JObj([id |-> JStr(ParentE1)])])])),
      Http200(JObj([fields |-> JObj([parent |-> JNull])])),
      Http200(JObj([fields |-> JObj([summary |-> JStr(<<"s">>)])])) }

InitParent ==
    /\ pc \in {"determine_parent_issues", "JiraAPIClient"}
    /\ config \in Configs
    /\ cwd \in WorkDirs
    /\ issue_id = IssueP1
    /\ args = None /\ branch = None /\ issues = None /\ parents = None
    /\ ret = Ok(None) /\ calls = <<>> /\ opened = <<>> /\ stdout = <<>>
    /\ exit_code = Running /\ traceback = Ok(None) /\ events = <<>>

\* Where determine_parent_issues leaves its caller.
After(outcome, exit) ==
    IF Raised(outcome) THEN "raised"
    ELSE IF exit # Running THEN "exited" ELSE "returned"

DetermineParentIssues ==
    /\ pc = "determine_parent_issues"
    /\ \E resp \in DetailResponses :
        LET r == determine_parent_issues(config, cwd, issue_id, resp)
        IN  /\ ret' = r.out
            /\ calls' = calls \o r.sent
            /\ stdout' = stdout \o r.wrote
            /\ exit_code' = r.exit
            /\ pc' = After(r.out, r.exit)
    /\ UNCHANGED <<args, config, cwd, branch, issue_id, issues, parents,
                   opened, traceback, events>>

ConstructClient ==
    /\ pc = "JiraAPIClient"
    /\ ret' = JiraAPIClient(config)
    /\ pc' = IF Raised(ret') THEN "client raised" ELSE "client made"
    /\ UNCHANGED <<args, config, cwd, branch, issue_id, issues, parents,
                   calls, opened, stdout, exit_code, traceback, events>>

NextParent == DetermineParentIssues \/ ConstructClient

SpecParent == InitParent /\ [][NextParent]_vars

\* The entries of the [projects] table whose key is an ancestor directory
\* of the working directory.
HasProjects == "projects" \in DOMAIN config
AncestorEntries ==
    IF HasProjects
    THEN SelectSeq(config["projects"], LAMBDA e : IsParentDir(e.key, cwd))
    ELSE <<>>

RECURSIVE Flatten(_)
Flatten(ls) == IF ls = <<>> THEN <<>> ELSE Head(ls).value \o Flatten(Tail(ls))

\* determine_parent_issues has run.
DeterminedParents == pc \in {"returned", "raised", "exited"}

CredentialsComplete == DOMAIN Credentials \subseteq DOMAIN config

\* C4 as stated: when a key of [projects] is an ancestor of the working
\* directory, exactly that key's list is returned, unchanged, and no request
\* is sent (the settings being complete and no exception raised).
C4_ReturnsThatKeysList ==
    (/\ DeterminedParents /\ pc # "raised"
     /\ Len(AncestorEntries) >= 1 /\ CredentialsComplete) =>
        /\ pc = "returned"
        /\ \E i \in 1..Len(AncestorEntries) : ret = Ok(AncestorEntries[i].value)
        /\ calls = <<>>

\* C4 amended: when keys of [projects] are ancestors of the working
\* directory and their lists are not all empty, the concatenation of their
\* lists, in the table's order, is returned and no request is sent; when all
\* of them are empty, the tracker is asked for the issue's parent instead.
C4_ReturnsConcatenation ==
    (DeterminedParents /\ Len(AncestorEntries) >= 1) =>
        IF Flatten(AncestorEntries) # <<>>
        THEN /\ pc = "returned"
             /\ ret = Ok(Flatten(AncestorEntries))
             /\ calls = <<>>
        ELSE CredentialsComplete =>
                /\ Len(calls) = 1
                /\ calls[1].method = "GET"
                /\ calls[1].endpoint = "issue"
                /\ calls[1].id = issue_id

\* C4's case: two keys are ancestors of the working directory, both lists
\* hold an issue, and the lists came back joined without a request.
C4_Witness ==
    /\ pc = "returned"
    /\ Len(AncestorEntries) = 2
    /\ \A i \in 1..2 : AncestorEntries[i].value # <<>>
    /\ ret = Ok(Flatten(AncestorEntries))
    /\ calls = <<>>

\* The parent key a decoded issue carries: fields.parent.key, or None when
\* the parent field is missing, is null or has no key.
ParentKeyOf(body) ==
    IF body.t # "dict" \/ "fields" \notin DOMAIN body.m THEN None
    ELSE LET f == body.m["fields"]
         IN  IF f.t # "dict" \/ "parent" \notin DOMAIN f.m THEN None
             ELSE LET par == f.m["parent"]
                  IN  IF par.t # "dict" \/ "key" \notin DOMAIN par.m THEN None
                      ELSE par.m["key"].s

\* C5: with no matching [projects] entry, one request is sent, a GET of the
\* issue's detail endpoint; on a 2xx answer the list holding
\* fields.parent.key is returned, or, the answer carrying no parent key
\* (missing or null), a message is written and the process exits with 1.
C5_OneLookupOrExit ==
    (DeterminedParents /\ Len(AncestorEntries) = 0 /\ CredentialsComplete) =>
        /\ Len(calls) = 1
        /\ calls[1].method = "GET"
        /\ calls[1].endpoint = "issue"
        /\ calls[1].id = issue_id
        /\ calls[1].status = 200 =>
            IF ParentKeyOf(calls[1].body) # None
            THEN pc = "returned" /\ ret = Ok(<<ParentKeyOf(calls[1].body)>>)
            ELSE /\ pc = "exited"
                 /\ exit_code = Exit(1)
                 /\ stdout = <<NoParentMessage>>

\* C8: constructing the client from settings that lack jira_url, email or
\* api_token raises JiraClientError, and no request is sent.
C8_MissingSettingRaisesClientError ==
    (pc \in {"client raised", "client made"} /\ ~CredentialsComplete) =>
        /\ pc = "client raised"
        /\ ret.exc = <<"JiraClientError">>
        /\ calls = <<>>

(***************************************************************************)
(* SpecSearch: display_matched_sections on one search result and every     *)
(* search term over a small alphabet.                                      *)
(***************************************************************************)
SearchAlphabet == {"a", "x", "X", "!"}
\* main calls display_matched_sections only with a non-empty term.
SearchStrings == StrOver(SearchAlphabet, MaxSearchLen) \ {<<>>}
Texts == StrOver(SearchAlphabet, MaxTextLen)
IssueS1 == <<"S", "-", "1">>

\* One issue with a description (or none) and no comment, or with one
\* comment and no description.
FoundIssues ==
    {<<[id |-> IssueS1, description |-> d, comments |-> <<>>]>> :
        d \in Texts \cup {None}}
    \cup {<<[id |-> IssueS1, description |-> None, comments |-> <<[body |-> b]>>]>> :
            b \in Texts \cup {None}}

DefaultArgs ==
    [issue |-> None, comment |-> None, list_comments |-> FALSE,
     open |-> FALSE, transition |-> FALSE, list_issues |-> FALSE,
     plain |-> FALSE, search |-> None, restrict |-> FALSE]

InitSearch ==
    /\ pc = "display_matched_sections"
    /\ args \in {[DefaultArgs EXCEPT !.search = s] : s \in SearchStrings}
    /\ issues \in FoundIssues
    /\ config = None /\ cwd = None /\ branch = None /\ issue_id = None
    /\ parents = None /\ ret = Ok(None)
    /\ calls = <<>> /\ opened = <<>> /\ stdout = <<>>
    /\ exit_code = Running /\ traceback = Ok(None) /\ events = <<>>

DisplayMatchedSections ==
    /\ pc = "display_matched_sections"
    /\ stdout' = stdout \o display_matched_sections(issues, args.search)
    /\ pc' = "displayed"
    /\ UNCHANGED <<args, config, cwd, branch, issue_id, issues, parents, ret,
                   calls, opened, exit_code, traceback, events>>

NextSearch == DisplayMatchedSections

SpecSearch == InitSearch /\ [][NextSearch]_vars

\* The tokens of a search term that survive: its maximal runs of word
\* characters, lowercased, that are no stop word.
SurvivingTokens(s) ==
    {[k \in 1..(p[2] - p[1] + 1) |-> ToLower(s[p[1] + k - 1])] :
        p \in {q \in (1..Len(s)) \X (1..Len(s)) :
            /\ q[1] <= q[2]
            /\ \A k \in q[1]..q[2] : IsWord(s[k])
            /\ (q[1] = 1 \/ ~IsWord(s[q[1] - 1]))
            /\ (q[2] = Len(s) \/ ~IsWord(s[q[2] + 1]))}}
    \ STOP_WORDS

\* A text contains a surviving token of the term, after normalization.
ContainsToken(text, s) ==
    /\ text # None
    /\ \E t \in SurvivingTokens(s) : InStr(t, clean_string(text))

Printed(text, label) == \E k \in 1..Len(stdout) :
    stdout[k].text = label /\ stdout[k].arg = text

\* C9: the description, and each comment body, is printed if and only if it
\* contains a surviving token of the search term; a term that leaves no
\* surviving token prints neither.
C9_PrintedIffTokenMatches ==
    pc = "displayed" =>
        \A n \in 1..Len(issues) :
            /\ Printed(issues[n].description, "Description:")
                 <=> ContainsToken(issues[n].description, args.search)
            /\ \A c \in 1..Len(issues[n].comments) :
                 Printed(issues[n].comments[c].body, "Comment by")
                 <=> ContainsToken(issues[n].comments[c].body, args.search)

(***************************************************************************)
(* Spec: one invocation of usa.py (main) or of the usa package (cli.main). *)
(***************************************************************************)
BranchP1x == <<"P", "-", "1", "-", "x">>
BranchMain == <<"m", "a", "i", "n">>
Branch1f == <<"1", "-", "f">>
GitAnswers == {BranchP1x, BranchMain, Branch1f, GitFailure}

CommentTexts == {None, <<>>, <<"x">>}
SearchTexts == {None, <<>>, <<"x">>}

ArgSets ==
    [issue : {None, IssueP1}, comment : CommentTexts, list_comments : BOOLEAN,
     open : BOOLEAN, transition : BOOLEAN, list_issues : BOOLEAN,
     plain : BOOLEAN, search : SearchTexts, restrict : BOOLEAN]

\* The working directory of the invocation and the settings files it may
\* run under: no [projects] table, or one that names an ancestor of it.
MainCwd == <<"a", "b">>
MainConfigs ==
    {Credentials,
     WithProjects(Credentials, <<[key |-> <<"a">>, value |-> <<ParentE2>>]>>)}

\* The n-th issue the tracker knows under a parent, newest first.
IssueS(n) == <<"S", "-", LET d == <<"1", "2", "3", "4", "5", "6", "7", "8", "9">> IN d[n]>>
RawIssue(n) ==
    [key |-> IssueS(n),
     description |-> IF n % 2 = 1 THEN <<"a", " ", "x">> ELSE None,
     comments |-> IF n % 2 = 1 THEN <<>> ELSE <<[body |-> <<"X", "!">>]>>]

\* What the tracker may answer to POST /rest/api/latest/search/.
SearchResponses ==
    {HttpError} \cup {Http200([k \in 1..n |-> RawIssue(k)]) : n \in 0..MaxIssues}

\* parse_search_response: the IssueSearch records, in the response's order.
parse_search_response(body) ==
    [k \in 1..Len(body) |->
        [id |-> body[k].key, description |-> body[k].description,
         comments |-> body[k].comments]]

Reverse(q) == [k \in 1..Len(q) |-> q[Len(q) + 1 - k]]

\* do_jql_search on the tracker's response: the outcome of the call.
do_jql_search(resp) ==
    LET result == post_json(resp)
    IN  IF Raised(result) THEN result
        ELSE Ok(Reverse(parse_search_response(result.value)))

\* What may be typed at a prompt: an integer, other text, or an interrupt.
Typed(n) == [kind |-> "int", n |-> n]
TypedText == [kind |-> "text"]
TypedInterrupt == [kind |-> "interrupt"]
PromptReplies ==
    {Typed(n) : n \in (0 - MaxIssues - 1)..(MaxIssues + 1)}
    \cup {TypedText, TypedInterrupt}

\* int(input(...)): ValueError on text that is no integer, KeyboardInterrupt
\* on an interrupt.
IntOfInput(reply) ==
    IF reply.kind = "int" THEN Ok(reply.n)
    ELSE IF reply.kind = "text" THEN Raise("ValueError", "invalid literal for int()")
    ELSE Raise("KeyboardInterrupt", "")

\* q[n] on a list: 0-based, a negative n counts from the end.
ListItem(q, n) ==
    IF n >= 0 /\ n < Len(q) THEN Ok(q[n + 1])
    ELSE IF n < 0 /\ n >= 0 - Len(q) THEN Ok(q[Len(q) + n + 1])
    ELSE Raise("IndexError", "list index out of range")

\* The flag actions of main, in the order of its if statements.
Blocks == <<"comment", "list_comments", "transition", "list_issues", "open", "search">>

\* A bug: the open block placed before the list-issues block.
NextBlockOpenFirst(b) ==
    CASE b = "comment" -> "list_comments"
      [] b = "list_comments" -> "transition"
      [] b = "transition" -> "open"
      [] b = "open" -> "list_issues"
      [] b = "list_issues" -> "search"
      [] b = "search" -> "done"

\* The if statement main falls through to after block b.
NextBlock(b) ==
    CASE b = "comment" -> "list_comments"
      [] b = "list_comments" -> "transition"
      [] b = "transition" -> "list_issues"
      [] b = "list_issues" -> "open"
      [] b = "open" -> "search"
      [] b = "search" -> "done"

\* The condition of block b's if statement.
FlagSet(a, b) ==
    CASE b = "comment" -> Truthy(a.comment)
      [] b = "list_comments" -> a.list_comments
      [] b = "transition" -> a.transition
      [] b = "list_issues" -> a.list_issues
      [] b = "open" -> a.open
      [] b = "search" -> Truthy(a.search)

UsageMessage == [text |-> "usage:", arg |-> None]
NoGitMessage ==
    [text |-> "Could not determine git branch. Are you in a repo?", arg |-> None]
\* usa.py formats the branch into the message (an f-string).
NoIssueMessage(b) ==
    [text |-> "Could not determine issue from branch name: ", arg |-> b]
\* usa/shortcuts.py: the same text without the f prefix, so the braces and
\* the word stay as written and the branch is not part of it.
ShortcutsNoIssueMessage(b) ==
    [text |-> "Could not determine issue from branch name: {branch}", arg |-> None]
GoodbyeMessage == [text |-> "Goodbye! :)", arg |-> None]

Init ==
    /\ pc \in {"main", "cli_main"}
    /\ args \in ArgSets
    /\ pc = "cli_main" => args = DefaultArgs
    /\ branch \in GitAnswers
    /\ args.issue # None => branch = BranchP1x
    /\ config \in MainConfigs
    /\ cwd = MainCwd
    /\ issue_id = None /\ issues = <<>> /\ parents = <<>> /\ ret = Ok(None)
    /\ calls = <<>> /\ opened = <<>> /\ stdout = <<>>
    /\ exit_code = Running /\ traceback = Ok(None) /\ events = <<>>

\* sys.exit(n) after writing `wrote`.
ExitWith(n, wrote) ==
    /\ stdout' = stdout \o wrote
    /\ exit_code' = Exit(n)
    /\ pc' = "exited"
    /\ traceback' = Ok(None)

\* An exception leaves main.  __main__ catches KeyboardInterrupt (a goodbye
\* and status 0); anything else ends the process with a traceback on
\* standard error and status 1.
Uncaught(r, wrote) ==
    IF Catches("KeyboardInterrupt", r)
    THEN ExitWith(0, wrote \o <<GoodbyeMessage>>)
    ELSE /\ stdout' = stdout \o wrote
         /\ exit_code' = Exit(1)
         /\ pc' = "exited"
         /\ traceback' = r

Started(b) == events' = Append(events, <<"start", b>>)
Finished(b) == events' = Append(events, <<"finish", b>>)
StartedAndFinished(b) == events' = events \o <<<<"start", b>>, <<"finish", b>>>>

\* main, lines 389-391
MainStart ==
    /\ pc = "main"
    /\ IF args = DefaultArgs
       THEN ExitWith(1, <<UsageMessage>>)
       ELSE /\ pc' = "resolve_issue"
            /\ UNCHANGED <<stdout, exit_code, traceback>>
    /\ UNCHANGED <<args, config, cwd, branch, issue_id, issues, parents, ret,
                   calls, opened, events>>

\* main, lines 393-404
ResolveIssue ==
    /\ pc = "resolve_issue"
    /\ IF args.issue # None
       THEN /\ issue_id' = args.issue
            /\ pc' = "comment"
            /\ UNCHANGED <<stdout, exit_code, traceback>>
       ELSE IF branch = GitFailure
       THEN ExitWith(1, <<NoGitMessage>>) /\ UNCHANGED issue_id
       ELSE IF extract_issue_id(branch) = None
       THEN ExitWith(1, <<NoIssueMessage(branch)>>) /\ issue_id' = None
       ELSE /\ issue_id' = extract_issue_id(branch)
            /\ pc' = "comment"
            /\ UNCHANGED <<stdout, exit_code, traceback>>
    /\ UNCHANGED <<args, config, cwd, branch, issues, parents, ret,
                   calls, opened, events>>

\* A block whose flag is not set is passed over.
SkipBlock ==
    /\ pc \in Range(Blocks)
    /\ ~FlagSet(args, pc)
    /\ pc' = NextBlock(pc)
    /\ UNCHANGED <<args, config, cwd, branch, issue_id, issues, parents, ret,
                   calls, opened, stdout, exit_code, traceback, events>>

CommentJson == <<[body |-> <<"x">>]>>
PrintComments(cs) == [k \in 1..Len(cs) |-> [text |-> "comment", arg |-> cs[k].body]]

\* main, line 407: add_comment
CommentAdd ==
    /\ pc = "comment" /\ FlagSet(args, "comment")
    /\ Started("comment")
    /\ \E resp \in {HttpError, Http200(CommentJson[1])} :
        LET client == JiraAPIClient(config)
            r == IF Raised(client) THEN client ELSE post_json(resp)
        IN  /\ calls' = IF Raised(client) THEN calls
                        ELSE Append(calls, Request("POST", "comment", issue_id,
                                                   args.comment, resp))
            /\ IF Raised(r) THEN Uncaught(r, <<>>)
               ELSE /\ pc' = "comment_list"
                    /\ UNCHANGED <<stdout, exit_code, traceback>>
    /\ UNCHANGED <<args, config, cwd, branch, issue_id, issues, parents, ret,
                   opened>>

\* get_comments and the loop that prints them; `then` is where main goes on.
GetAndPrintComments(then) ==
    /\ \E resp \in {HttpError, Http200(CommentJson)} :
        LET client == JiraAPIClient(config)
            r == IF Raised(client) THEN client ELSE get_json(resp)
        IN  /\ calls' = IF Raised(client) THEN calls
                        ELSE Append(calls, Request("GET", "comment", issue_id,
                                                   None, resp))
            /\ IF Raised(r) THEN Uncaught(r, <<>>)
               ELSE /\ stdout' = stdout \o PrintComments(r.value)
                    /\ pc' = then
                    /\ UNCHANGED <<exit_code, traceback>>
    /\ UNCHANGED <<args, config, cwd, branch, issue_id, issues, parents, ret,
                   opened>>

\* main, lines 408-410
CommentList ==
    /\ pc = "comment_list"
    /\ GetAndPrintComments(NextBlock("comment"))
    /\ IF pc' = "exited" THEN UNCHANGED events ELSE Finished("comment")

\* main, lines 412-415
ListComments ==
    /\ pc = "list_comments" /\ FlagSet(args, "list_comments")
    /\ GetAndPrintComments(NextBlock("list_comments"))
    /\ IF pc' = "exited" THEN Started("list_comments")
       ELSE StartedAndFinished("list_comments")

TransitionsJson == <<[id |-> 11, name |-> "Done"]>>

\* main, lines 418-421: get_available_transitions and the list printed
TransitionList ==
    /\ pc = "transition" /\ FlagSet(args, "transition")
    /\ Started("transition")
    /\ \E resp \in {HttpError, Http200(TransitionsJson)} :
        LET client == JiraAPIClient(config)
            r == IF Raised(client) THEN client ELSE get_json(resp)
        IN  /\ calls' = IF Raised(client) THEN calls
                        ELSE Append(calls, Request("GET", "transitions", issue_id,
                                                   None, resp))
            /\ IF Raised(r) THEN Uncaught(r, <<>>)
               ELSE /\ stdout' = stdout \o
                        <<[text |-> "Available states to transition to:", arg |-> None]>>
                    /\ pc' = "transition_input"
                    /\ UNCHANGED <<exit_code, traceback>>
    /\ UNCHANGED <<args, config, cwd, branch, issue_id, issues, parents, ret,
                   opened>>

\* main, lines 422-424: the prompt, do_transition
TransitionInput ==
    /\ pc = "transition_input"
    /\ \E reply \in {Typed(11), TypedText, TypedInterrupt} :
       \E resp \in {HttpError, Http200(<<>>)} :
        LET asked == <<[text |-> "Enter state id: ", reply |-> reply]>>
            n == IntOfInput(reply)
            client == IF Raised(n) THEN n ELSE JiraAPIClient(config)
            r == IF Raised(client) THEN client ELSE post_json(resp)
        IN  /\ calls' = IF Raised(client) THEN calls
                        ELSE Append(calls, Request("POST", "transitions", issue_id,
                                                   n.value, resp))
            /\ IF Raised(r) THEN Uncaught(r, asked) /\ UNCHANGED events
               ELSE /\ stdout' = stdout \o asked \o
                                 <<[text |-> "Success.", arg |-> None]>>
                    /\ pc' = NextBlock("transition")
                    /\ Finished("transition")
                    /\ UNCHANGED <<exit_code, traceback>>
    /\ UNCHANGED <<args, config, cwd, branch, issue_id, issues, parents, ret,
                   opened>>

\* determine_parent_issues as main calls it; `then` is where main goes on.
CallDetermineParents(then) ==
    \E resp \in DetailResponses :
        LET r == determine_parent_issues(config, cwd, issue_id, resp)
        IN  /\ calls' = calls \o r.sent
            /\ IF Raised(r.out) THEN Uncaught(r.out, <<>>) /\ UNCHANGED parents
               ELSE IF r.exit # Running
               THEN ExitWith(r.exit[2], r.wrote) /\ UNCHANGED parents
               ELSE /\ parents' = r.out.value
                    /\ pc' = then
                    /\ UNCHANGED <<stdout, exit_code, traceback>>

\* main, line 427
ListIssuesParents ==
    /\ pc = "list_issues" /\ FlagSet(args, "list_issues")
    /\ Started("list_issues")
    /\ CallDetermineParents("list_issues_search")
    /\ UNCHANGED <<args, config, cwd, branch, issue_id, issues, ret, opened>>

IssueLines(found) ==
    [k \in 1..Len(found) |-> [text |-> "issue", idx |-> k - 1, arg |-> found[k].id]]

\* The search request of do_jql_search.
SearchRequest(jql, resp) == Request("POST", "search", None, jql, resp)

\* main, lines 428-439: issues_by_parents and the numbered list
ListIssuesSearch ==
    /\ pc = "list_issues_search"
    /\ \E resp \in SearchResponses :
        LET client == JiraAPIClient(config)
            r == IF Raised(client) THEN client ELSE do_jql_search(resp)
        IN  /\ calls' = IF Raised(client) THEN calls
                        ELSE Append(calls,
                                    SearchRequest([parents |-> parents, text |-> None], resp))
            /\ IF Raised(r) THEN Uncaught(r, <<>>) /\ UNCHANGED <<issues, events>>
               ELSE /\ issues' = r.value
                    /\ UNCHANGED <<exit_code, traceback>>
                    /\ IF args.plain
                       THEN /\ stdout' = stdout \o IssueLines(r.value)
                            /\ pc' = NextBlock("list_issues")
                            /\ Finished("list_issues")
                       ELSE /\ stdout' = stdout \o IssueLines(r.value) \o
                                <<[text |-> "Found issues for parent issue(s)",
                                   arg |-> None]>>
                            /\ pc' = "list_issues_prompt"
                            /\ UNCHANGED events
    /\ UNCHANGED <<args, config, cwd, branch, issue_id, parents, ret, opened>>

\* open_issue: the issue's page is handed to the web browser.
open_issue(id, by) == opened' = Append(opened, [id |-> id, by |-> by])

\* main, lines 440-441: the prompt, open_issue(issues[selected_issue].id)
ListIssuesPrompt ==
    /\ pc = "list_issues_prompt"
    /\ \E reply \in PromptReplies :
        LET asked == <<[text |-> "Open issue: ", reply |-> reply]>>
            n == IntOfInput(reply)
            r == IF Raised(n) THEN n ELSE ListItem(issues, n.value)
        IN  IF Raised(r)
            THEN Uncaught(r, asked) /\ UNCHANGED <<opened, events>>
            ELSE /\ stdout' = stdout \o asked
                 /\ open_issue(r.value.id, "list_issues")
                 /\ pc' = NextBlock("list_issues")
                 /\ Finished("list_issues")
                 /\ UNCHANGED <<exit_code, traceback>>
    /\ UNCHANGED <<args, config, cwd, branch, issue_id, issues, parents, ret,
                   calls>>

\* main, lines 443-444
OpenIssue ==
    /\ pc = "open" /\ FlagSet(args, "open")
    /\ open_issue(issue_id, "open")
    /\ StartedAndFinished("open")
    /\ pc' = NextBlock("open")
    /\ UNCHANGED <<args, config, cwd, branch, issue_id, issues, parents, ret,
                   calls, stdout, exit_code, traceback>>

\* main, lines 447-448: with --restrict the parents are determined first
SearchParents ==
    /\ pc = "search" /\ FlagSet(args, "search")
    /\ Started("search")
    /\ IF args.restrict
       THEN CallDetermineParents("search_query")
       ELSE /\ pc' = "search_query"
            /\ parents' = <<>>
            /\ UNCHANGED <<calls, stdout, exit_code, traceback>>
    /\ UNCHANGED <<args, config, cwd, branch, issue_id, issues, ret, opened>>

\* main, lines 449-452: issues_by_search_term, display_matched_sections
SearchQuery ==
    /\ pc = "search_query"
    /\ \E resp \in SearchResponses :
        LET client == JiraAPIClient(config)
            r == IF Raised(client) THEN client ELSE do_jql_search(resp)
        IN  /\ calls' = IF Raised(client) THEN calls
                        ELSE Append(calls,
                                    SearchRequest([parents |-> parents,
                                                   text |-> args.search], resp))
            /\ IF Raised(r) THEN Uncaught(r, <<>>) /\ UNCHANGED <<issues, events>>
               ELSE /\ issues' = r.value
                    /\ stdout' = stdout \o display_matched_sections(r.value, args.search)
                    /\ pc' = NextBlock("search")
                    /\ Finished("search")
                    /\ UNCHANGED <<exit_code, traceback>>
    /\ UNCHANGED <<args, config, cwd, branch, issue_id, parents, ret, opened>>

\* main returns and the interpreter exits with status 0.
MainReturn ==
    /\ pc = "done"
    /\ pc' = "returned"
    /\ exit_code' = Exit(0)
    /\ UNCHANGED <<args, config, cwd, branch, issue_id, issues, parents, ret,
                   calls, opened, stdout, traceback, events>>

\* usa/shortcuts.py: open_current_issue, the (success, message) it returns
OpenCurrentIssue ==
    /\ pc = "cli_main"
    /\ IF branch = GitFailure
       THEN /\ ret' = Ok([success |-> FALSE, msg |-> NoGitMessage])
            /\ UNCHANGED <<issue_id, opened>>
       ELSE IF shortcuts_extract_issue_id(branch) = None
       THEN /\ ret' = Ok([success |-> FALSE, msg |-> ShortcutsNoIssueMessage(branch)])
            /\ issue_id' = None
            /\ UNCHANGED opened
       ELSE /\ issue_id' = shortcuts_extract_issue_id(branch)
            /\ open_issue(issue_id', "open_current_issue")
            /\ ret' = Ok([success |-> TRUE, msg |-> [text |-> "success", arg |-> None]])
    /\ pc' = "cli_report"
    /\ UNCHANGED <<args, config, cwd, branch, issues, parents, calls, stdout,
                   exit_code, traceback, events>>

\* usa/cli.py: main, after open_current_issue returned
CliReport ==
    /\ pc = "cli_report"
    /\ IF ~ret.value.success
       THEN /\ stdout' = Append(stdout, ret.value.msg)
            /\ exit_code' = Exit(1)
       ELSE /\ exit_code' = Exit(0)
            /\ UNCHANGED stdout
    /\ pc' = "cli_exited"
    /\ UNCHANGED <<args, config, cwd, branch, issue_id, issues, parents, ret,
                   calls, opened, traceback, events>>

Next ==
    \/ MainStart \/ ResolveIssue \/ SkipBlock
    \/ CommentAdd \/ CommentList \/ ListComments
    \/ TransitionList \/ TransitionInput
    \/ ListIssuesParents \/ ListIssuesSearch \/ ListIssuesPrompt
    \/ OpenIssue \/ SearchParents \/ SearchQuery \/ MainReturn
    \/ OpenCurrentIssue \/ CliReport

Spec == Init /\ [][Next]_vars

(***************************************************************************)
(* SpecExtract: extract_issue_id applied to every branch name over a small *)
(* alphabet.                                                               *)
(***************************************************************************)
BranchAlphabet == {"P", "-", "1", "2"}

InitExtract ==
    /\ pc \in {"extract", "shortcuts_extract"}
    /\ branch \in StrOver(BranchAlphabet, MaxBranchLen)
    /\ args = None /\ config = None /\ cwd = None
    /\ issue_id = None /\ issues = None /\ parents = None /\ ret = Ok(None)
    /\ calls = <<>> /\ opened = <<>> /\ stdout = <<>>
    /\ exit_code = Running /\ traceback = Ok(None) /\ events = <<>>

ExtractIssueId ==
    /\ pc = "extract"
    /\ ret' = Ok(extract_issue_id(branch))
    /\ pc' = "extracted"
    /\ UNCHANGED <<args, config, cwd, branch, issue_id, issues, parents,
                   calls, opened, stdout, exit_code, traceback, events>>

ShortcutsExtractIssueId ==
    /\ pc = "shortcuts_extract"
    /\ ret' = Ok(shortcuts_extract_issue_id(branch))
    /\ pc' = "extracted"
    /\ UNCHANGED <<args, config, cwd, branch, issue_id, issues, parents,
                   calls, opened, stdout, exit_code, traceback, events>>

NextExtract == ExtractIssueId \/ ShortcutsExtractIssueId

SpecExtract == InitExtract /\ [][NextExtract]_vars

\* The branch name is X "-" D T with X = s[1..i] non-digits (i >= 1) and
\* D = s[i+2..j] digits (at least one).
IsForm(s, i, j) ==
    /\ 1 <= i /\ i + 2 <= j /\ j <= Len(s)
    /\ \A k \in 1..i : ~IsDigit(s[k])
    /\ s[i + 1] = "-"
    /\ \A k \in (i + 2)..j : IsDigit(s[k])

HasForm(s) == \E i \in 1..Len(s) : \E j \in 1..Len(s) : IsForm(s, i, j)

\* C6 as stated: for every way to read the branch name as
\* <non-digits>-<digits> followed by arbitrary trailing text, extract_issue_id
\* returns exactly <non-digits>-<digits>.
C6_AnyTrailingText ==
    pc = "extracted" =>
        \A i \in 1..Len(branch) : \A j \in 1..Len(branch) :
            IsForm(branch, i, j) => ret = Ok(SubSeq(branch, 1, j))

\* C6 amended: the same, for trailing text that is empty or does not begin
\* with a digit (the digit run is the whole run of digits after the hyphen).
C6_TrailingTextNotDigit ==
    pc = "extracted" =>
        \A i \in 1..Len(branch) : \A j \in 1..Len(branch) :
            (/\ IsForm(branch, i, j)
             /\ (j = Len(branch) \/ ~IsDigit(branch[j + 1])))
            => ret = Ok(SubSeq(branch, 1, j))

\* C6's case: a key, a hyphen, two digits and trailing text were extracted from.
C6_Witness ==
    /\ pc = "extracted"
    /\ \E i \in 1..Len(branch) : \E j \in 1..Len(branch) :
        /\ IsForm(branch, i, j) /\ j >= i + 3 /\ j < Len(branch)
        /\ ~IsDigit(branch[j + 1])
        /\ ret = Ok(SubSeq(branch, 1, j))

\* C7: a branch name that does not start with non-digits, a hyphen and
\* digits gives None, also when such a run occurs later in the name.
C7_NoPrefixGivesNone ==
    (pc = "extracted" /\ ~HasForm(branch)) => ret = Ok(None)

\* C7's case: the pattern occurs only later in the name, and None came back.
C7_Witness ==
    /\ pc = "extracted"
    /\ ~HasForm(branch)
    /\ \E i \in 2..Len(branch) : HasForm(SubSeq(branch, i, Len(branch)))
    /\ ret = Ok(None)

(***************************************************************************)
(* Properties of an invocation.                                            *)
(***************************************************************************)
\* The invocation of usa.py has ended: main returned, or the process exited.
MainEnded == pc \in {"returned", "exited"}

\* The actions that were started, and those that were finished, in order.
StartedSeq ==
    LET starts == SelectSeq(events, LAMBDA e : e[1] = "start")
    IN  [k \in 1..Len(starts) |-> starts[k][2]]
PerformedSeq ==
    LET ends == SelectSeq(events, LAMBDA e : e[1] = "finish")
    IN  [k \in 1..Len(ends) |-> ends[k][2]]

\* The flag of an action was given on the command line.
Given(b) ==
    CASE b = "comment" -> args.comment # None
      [] b = "list_comments" -> args.list_comments
      [] b = "transition" -> args.transition
      [] b = "list_issues" -> args.list_issues
      [] b = "open" -> args.open
      [] b = "search" -> args.search # None

\* The flag was given, and with a text that is not empty where it takes one.
GivenNonEmpty(b) ==
    /\ Given(b)
    /\ b = "comment" => args.comment # <<>>
    /\ b = "search" => args.search # <<>>

\* Every action is started after the one before it was finished.
OneAtATime ==
    \A k \in 1..Len(events) :
        IF k % 2 = 1 THEN events[k][1] = "start"
        ELSE events[k] = <<"finish", events[k - 1][2]>>

\* C1 as stated: an invocation with an issue id that ended without an
\* uncaught exception performed exactly the actions whose flags were given,
\* each once, in the order comment, list-comments, transition, list-issues,
\* open, search.
C1_PerformsEveryGivenFlag ==
    (MainEnded /\ issue_id # None /\ ~Raised(traceback)) =>
        /\ PerformedSeq = SelectSeq(Blocks, Given)
        /\ OneAtATime

\* C1 amended: the actions started are, in the fixed order, the first of
\* those whose flags were given with a non-empty text, each once and each
\* started after the one before it was finished; when main returns, all of
\* them were performed; an action that fails ends the invocation, and the
\* ones after it are not started.
C1_PerformsGivenFlagsInOrder ==
    LET due == SelectSeq(Blocks, GivenNonEmpty)
    IN  /\ Len(StartedSeq) <= Len(due)
        /\ StartedSeq = SubSeq(due, 1, Len(StartedSeq))
        /\ OneAtATime
        /\ pc \in {"done", "returned"} => PerformedSeq = due
        /\ pc = "exited" => Len(PerformedSeq) < Len(due) \/ issue_id = None

\* C1's case: all six flags were given and main returned after all six
\* actions.
C1_Witness ==
    /\ pc = "returned"
    /\ \A k \in 1..Len(Blocks) : GivenNonEmpty(Blocks[k])
    /\ PerformedSeq = Blocks

\* C2: after a non-2xx answer to a request the invocation ends with the
\* answer's body as the last line on standard output, status 1, no
\* traceback, and no further request.
C2_TrackerErrorIsReported ==
    (MainEnded /\ \E k \in 1..Len(calls) : ~Is2xx(calls[k])) =>
        /\ ~Is2xx(calls[Len(calls)])
        /\ exit_code = Exit(1)
        /\ ~Raised(traceback)
        /\ stdout # <<>>
        /\ stdout[Len(stdout)].text = ErrorBody

\* C3: no -i and a branch name with no issue id: the message written holds
\* the branch name, the status is not 0, no request was sent and no browser
\* opened (usa.py run with some argument, or the usa package's command).
C3_NoIssueReportsBranch ==
    (/\ \/ MainEnded /\ args # DefaultArgs
        \/ pc = "cli_exited"
     /\ args.issue = None
     /\ branch # GitFailure
     /\ ~HasForm(branch)) =>
        /\ \E k \in 1..Len(stdout) : stdout[k].arg = branch
        /\ exit_code \notin {Running, Exit(0)}
        /\ calls = <<>>
        /\ opened = <<>>

\* The issues the list-issues action handed to the browser.
OpenedByList ==
    LET o == SelectSeq(opened, LAMBDA e : e.by = "list_issues")
    IN  [k \in 1..Len(o) |-> o[k].id]

\* C10: an integer typed at "Open issue: " opens the issue printed beside
\* that index, and opens nothing when no line carries it; with --plain there
\* is no prompt and nothing is opened.
C10_OpensThePrintedIssue ==
    /\ \A k \in 1..Len(stdout) :
        (stdout[k].text = "Open issue: " /\ stdout[k].reply.kind = "int") =>
            LET beside == {j \in 1..k : /\ stdout[j].text = "issue"
                                        /\ stdout[j].idx = stdout[k].reply.n}
            IN  IF beside = {} THEN OpenedByList = <<>>
                ELSE \E j \in beside : OpenedByList = <<stdout[j].arg>>
    /\ args.plain =>
        /\ \A k \in 1..Len(stdout) : stdout[k].text # "Open issue: "
        /\ OpenedByList = <<>>

=============================================================================
